---- MODULE Spec2Model ----
(***************************************************************************)
(* TRIH episode explorer (src/data.js) and statistics page                 *)
(* (src/unnamed/part_001, first file): filter state, filter predicate,     *)
(* cascading option lists, URL synchronisation.                            *)
(*                                                                         *)
(* A JavaScript string is a sequence of one-character strings, so that     *)
(* split, join, trim, toLowerCase and includes are computed, not assumed.  *)
(* A JavaScript Set is a duplicate-free sequence (insertion order).        *)
(***************************************************************************)
EXTENDS Integers, Sequences, FiniteSets, TLC

VARIABLES page, startUrl, sheet, phase, raw, filtered, groupBy, filters, q,
          qBox, options, checked, handler, chips, pendingApply, pendingQ,
          burst, url, tables, last, fn, arg, ret

vars == <<page, startUrl, sheet, phase, raw, filtered, groupBy, filters, q,
          qBox, options, checked, handler, chips, pendingApply, pendingQ,
          burst, url, tables, last, fn, arg, ret>>

----------------------------------------------------------------------------
(* Bounds *)

\* number of rows of the sheet that the fetch delivers
MaxRows == 3

\* largest number of selected values over all dimensions together
MaxSelected == 2

\* largest number of debounced triggers (explorer) between two recomputes
MaxBurst == 2

----------------------------------------------------------------------------
(* Strings *)

UpperAlpha == <<"A","B","C","D","E","F","G","H","I","J","K","L","M",
                "N","O","P","Q","R","S","T","U","V","W","X","Y","Z">>
LowerAlpha == <<"a","b","c","d","e","f","g","h","i","j","k","l","m",
                "n","o","p","q","r","s","t","u","v","w","x","y","z">>
Digits == <<"0","1","2","3","4","5","6","7","8","9">>

DigitSet == {Digits[i] : i \in 1..10}

DigitOf == [c \in DigitSet |-> (CHOOSE i \in 1..10 : Digits[i] = c) - 1]

IsDigit(c) == c \in DigitSet

DigitVal(c) == DigitOf[c]

UpperSet == {UpperAlpha[i] : i \in 1..26}

LowerOf == [c \in UpperSet |-> LowerAlpha[CHOOSE i \in 1..26 : UpperAlpha[i] = c]]

LowerChar(c) == IF c \in UpperSet THEN LowerOf[c] ELSE c

\* String.prototype.toLowerCase
toLowerCase(s) == [i \in 1..Len(s) |-> LowerChar(s[i])]

RECURSIVE TrimLeft(_)
TrimLeft(s) ==
  IF s # <<>> /\ Head(s) = " " THEN TrimLeft(Tail(s)) ELSE s

RECURSIVE TrimRight(_)
TrimRight(s) ==
  IF s # <<>> /\ s[Len(s)] = " " THEN TrimRight(SubSeq(s, 1, Len(s) - 1)) ELSE s

\* String.prototype.trim
trim(s) == TrimRight(TrimLeft(s))

\* String.prototype.split(","): the pieces between the commas
RECURSIVE SplitFrom(_, _, _)
SplitFrom(s, i, cur) ==
  IF i > Len(s) THEN <<cur>>
  ELSE IF s[i] = "," THEN <<cur>> \o SplitFrom(s, i + 1, <<>>)
  ELSE SplitFrom(s, i + 1, Append(cur, s[i]))

split(s) == SplitFrom(s, 1, <<>>)

\* Array.prototype.join(sep)
RECURSIVE JoinWith(_, _)
JoinWith(a, sep) ==
  IF a = <<>> THEN <<>>
  ELSE IF Len(a) = 1 THEN a[1]
  ELSE a[1] \o sep \o JoinWith(Tail(a), sep)

\* mutant of join: the separator is ", "
JoinCommaBlank(a) == JoinWith(a, <<",", " ">>)

\* Array.prototype.join(","), also the string form of an array
join(a) == JoinWith(a, <<",">>)

\* String.prototype.includes
includes(hay, needle) ==
  \E i \in 0..(Len(hay) - Len(needle)) :
     \A j \in 1..Len(needle) : hay[i + j] = needle[j]

\* String.prototype.startsWith
startsWith(s, p) ==
  Len(s) >= Len(p) /\ \A j \in 1..Len(p) : s[j] = p[j]

\* String(n) for a non-negative integer
RECURSIVE IntToStr(_)
IntToStr(n) ==
  IF n < 10 THEN <<Digits[n + 1]>>
  ELSE Append(IntToStr(n \div 10), Digits[(n % 10) + 1])

\* the value of a digit string
RECURSIVE DigitsToInt(_)
DigitsToInt(s) ==
  IF s = <<>> THEN 0
  ELSE 10 * DigitsToInt(SubSeq(s, 1, Len(s) - 1)) + DigitVal(s[Len(s)])

\* the longest leading run of digits of s
RECURSIVE LeadingDigits(_)
LeadingDigits(s) ==
  IF s # <<>> /\ IsDigit(Head(s)) THEN <<Head(s)>> \o LeadingDigits(Tail(s))
  ELSE <<>>

\* sequence helpers
Range(a) == {a[i] : i \in 1..Len(a)}

\* Set.prototype.add on an insertion-ordered set
SetAdd(s, v) == IF v \in Range(s) THEN s ELSE Append(s, v)

\* Set.prototype.delete
SetDelete(s, v) == SelectSeq(s, LAMBDA x : x # v)

RECURSIVE AddAll(_, _)
AddAll(s, a) == IF a = <<>> THEN s ELSE AddAll(SetAdd(s, Head(a)), Tail(a))

\* x inserted into the sorted sequence s: from the right, x passes every
\* element it is strictly before
InsertSorted(s, x, Before(_, _)) ==
  LET stop == {j \in 1..Len(s) : ~Before(x, s[j])}
      j == IF stop = {} THEN 0 ELSE CHOOSE k \in stop : \A m \in stop : m <= k
  IN SubSeq(s, 1, j) \o <<x>> \o SubSeq(s, j + 1, Len(s))

\* Array.prototype.sort (stable insertion sort): Before(x, y) iff the
\* comparator puts x strictly before y, i.e. compare(x, y) < 0
sort(a, Before(_, _)) ==
  LET sorted[k \in 0..Len(a)] ==
        IF k = 0 THEN <<>> ELSE InsertSorted(sorted[k - 1], a[k], Before)
  IN sorted[Len(a)]

\* parseInt(s): <<TRUE, n>> or <<FALSE, 0>> for NaN; an optional sign, then
\* the leading digits (the labels are trimmed, so no leading blanks remain)
parseInt(s) ==
  LET neg  == s # <<>> /\ Head(s) = "-"
      body == IF s # <<>> /\ Head(s) \in {"-", "+"} THEN Tail(s) ELSE s
      ds   == LeadingDigits(body)
  IN IF ds = <<>> THEN <<FALSE, 0>>
     ELSE <<TRUE, IF neg THEN 0 - DigitsToInt(ds) ELSE DigitsToInt(ds)>>

\* String.prototype.localeCompare under the root collation: primary weights
\* (blank < punctuation < digits < letters, letters without case) decide
\* first; between strings with equal primary weights the first case
\* difference decides, lower case first.  Returns -1, 0 or 1.
LetterRank ==
  [c \in UpperSet \cup {LowerAlpha[i] : i \in 1..26} |->
     CHOOSE i \in 1..26 : LowerAlpha[i] = c \/ UpperAlpha[i] = c]

PrimaryWeight(c) ==
  IF c = " " THEN 1
  ELSE IF c = "," THEN 2
  ELSE IF c = "-" THEN 3
  ELSE IF c = "." THEN 4
  ELSE IF IsDigit(c) THEN 10 + DigitVal(c)
  ELSE IF c \in DOMAIN LetterRank THEN 20 + LetterRank[c]
  ELSE 50

IsUpper(c) == c \in UpperSet

localeCompare(a, b) ==
  LET m == IF Len(a) < Len(b) THEN Len(a) ELSE Len(b)
      pd == {i \in 1..m : PrimaryWeight(a[i]) # PrimaryWeight(b[i])}
      cd == {i \in 1..m : IsUpper(a[i]) # IsUpper(b[i])}
      Min(S) == CHOOSE i \in S : \A j \in S : i <= j
  IN IF pd # {}
     THEN (IF PrimaryWeight(a[Min(pd)]) < PrimaryWeight(b[Min(pd)]) THEN -1 ELSE 1)
     ELSE IF Len(a) # Len(b) THEN (IF Len(a) < Len(b) THEN -1 ELSE 1)
     ELSE IF cd # {} THEN (IF IsUpper(b[Min(cd)]) THEN -1 ELSE 1)
     ELSE 0

----------------------------------------------------------------------------
(* Records *)

Explorer == "explorer"
Stats == "stats"

\* the filter dropdown keys of a page
Dims(p) ==
  IF p = Explorer THEN <<"year", "period", "region", "topic">>
  ELSE <<"year", "period", "region", "topic", "series">>

DimSet(p) == Range(Dims(p))

TagDims(p) == DimSet(p) \ {"year"}

NoPeriod == <<"N","o"," ","p","e","r","i","o","d"," ","a","s","s","i","g","n","e","d">>
NoRegion == <<"N","o"," ","r","e","g","i","o","n"," ","a","s","s","i","g","n","e","d">>
NoTopic  == <<"N","o"," ","t","o","p","i","c"," ","a","s","s","i","g","n","e","d">>
NoSeries == <<"N","o"," ","s","e","r","i","e","s"," ","a","s","s","i","g","n","e","d">>

\* the label standing for "no tag" in dimension d
Sentinel(d) ==
  CASE d = "period" -> NoPeriod
    [] d = "region" -> NoRegion
    [] d = "topic"  -> NoTopic
    [] d = "series" -> NoSeries

\* parseTags: split on ",", trim each piece, drop the empty pieces
parseTags(v) ==
  IF v = <<>> THEN <<>>
  ELSE LET pieces == split(v)
           trimmed == [i \in 1..Len(pieces) |-> trim(pieces[i])]
       IN SelectSeq(trimmed, LAMBDA x : x # <<>>)

\* stripPrefix: remove one leading "<digits>.<blanks>"
stripPrefix(v) ==
  LET ds == LeadingDigits(v)
  IN IF ds # <<>> /\ Len(v) > Len(ds) /\ v[Len(ds) + 1] = "."
     THEN TrimLeft(SubSeq(v, Len(ds) + 2, Len(v)))
     ELSE v

\* parseTags of src/stats.js and of the first statistics page: every trimmed
\* piece loses its ordinal prefix before the empty pieces are dropped
parseTags_stats(v) ==
  IF v = <<>> THEN <<>>
  ELSE LET pieces == split(v)
           stripped == [i \in 1..Len(pieces) |-> stripPrefix(trim(pieces[i]))]
       IN SelectSeq(stripped, LAMBDA x : x # <<>>)

\* absent episode ordinal (null)
NoEpisode == -1

\* parseEpisode: the leading integer of the trimmed field, or null
parseEpisode(v) ==
  LET ds == LeadingDigits(trim(v))
  IN IF ds = <<>> THEN NoEpisode ELSE DigitsToInt(ds)

\* absent date (null)
NoDate == [valid |-> FALSE, year |-> 0, month |-> 0]

\* parseDate: new Date(v) for a field of the form YYYY-MM; any other text is
\* an invalid date and gives null.  month is getMonth(), 0-based.
parseDate(v) ==
  IF /\ Len(v) = 7
     /\ \A i \in {1, 2, 3, 4, 6, 7} : IsDigit(v[i])
     /\ v[5] = "-"
     /\ DigitsToInt(SubSeq(v, 6, 7)) \in 1..12
  THEN [valid |-> TRUE, year |-> DigitsToInt(SubSeq(v, 1, 4)),
        month |-> DigitsToInt(SubSeq(v, 6, 7)) - 1]
  ELSE NoDate

\* one fetched row: every column as raw text
MkRow(ep, title, date, desc, region, period, topic, series) ==
  [Episode |-> ep, Title |-> title, PublishDate |-> date, Description |-> desc,
   Region |-> region, Period |-> period, Topic |-> topic, Series |-> series]

\* the published sheet
Sheet ==
  << MkRow(<<"1">>, <<"A","b">>, <<"2","0","2","0","-","0","3">>, <<"x">>, <<"E","u">>, <<"1","."," ","A">>, <<"W","a","r">>, <<"S","1">>),
     MkRow(<<"9">>, <<" ">>, <<"2","0","2","1","-","0","5">>, <<>>, <<"E","u">>, <<>>, <<>>, <<>>),
     MkRow(<<"2","b">>, <<"B","a">>, <<"s","o","o","n">>, <<>>, <<"A","s">>, <<"2","."," ","B",","," ","1","."," ","A">>, <<>>, <<>>),
     MkRow(<<>>, <<"c">>, <<"2","0","2","0","-","0","7">>, <<>>, <<>>, <<"2","."," ","B">>, <<"W","a","r">>, <<"S","2">>),
     MkRow(<<"3">>, <<"d">>, <<"2","0","2","1","-","0","5">>, <<>>, <<"E","u",","," ","A","s">>, <<>>, <<"A","r","t",","," ","A","r","t">>, <<"S","1">>) >>

\* rows.map(...) of the load handlers: the explorer record has no Series
\* field and the stats record no Description field (kept empty here)
Normalize(p, r) ==
  [Episode     |-> parseEpisode(r.Episode),
   Title       |-> trim(r.Title),
   PublishDate |-> parseDate(r.PublishDate),
   Description |-> IF p = Explorer THEN trim(r.Description) ELSE <<>>,
   Region      |-> parseTags(r.Region),
   Period      |-> parseTags(r.Period),
   Topic       |-> parseTags(r.Topic),
   Series      |-> IF p = Stats THEN parseTags(r.Series) ELSE <<>>]

\* mutant of LoadRows: a row without a valid date is dropped as well
LoadRowsDated(p, rows) ==
  SelectSeq([i \in 1..Len(rows) |-> Normalize(p, rows[i])],
            LAMBDA r : r.Title # <<>> /\ r.PublishDate.valid)

\* normalized.filter(r => r.Title)
LoadRows(p, rows) ==
  SelectSeq([i \in 1..Len(rows) |-> Normalize(p, rows[i])],
            LAMBDA r : r.Title # <<>>)

\* the tag sequence of record r in tag dimension d
TagsOf(r, d) ==
  CASE d = "period" -> r.Period
    [] d = "region" -> r.Region
    [] d = "topic"  -> r.Topic
    [] d = "series" -> r.Series

\* r.X.length ? r.X : ["No X assigned"]
EffectiveTags(r, d) ==
  IF Len(TagsOf(r, d)) > 0 THEN TagsOf(r, d) ELSE <<Sentinel(d)>>

----------------------------------------------------------------------------
(* Filter predicate and canonical sort *)

\* `${r.Title} ${r.Description} ${r.Period} ${r.Region} ${r.Topic}`.toLowerCase()
Haystack(r) ==
  toLowerCase(r.Title \o <<" ">> \o r.Description \o <<" ">> \o join(r.Period)
              \o <<" ">> \o join(r.Region) \o <<" ">> \o join(r.Topic))

\* the year string a record is matched by: String(getFullYear()) or ""
YearKey(r) ==
  IF r.PublishDate.valid THEN IntToStr(r.PublishDate.year) ELSE <<>>

\* mutant of Matches: every tag of the record must be selected
MatchesEveryTag(p, r, f, qq) ==
  /\ (p = Explorer /\ qq # <<>>) => includes(Haystack(r), qq)
  /\ f["year"] # <<>> => YearKey(r) \in Range(f["year"])
  /\ \A d \in TagDims(p) :
       f[d] # <<>> => \A i \in 1..Len(EffectiveTags(r, d)) :
                         EffectiveTags(r, d)[i] \in Range(f[d])

\* the callback of rows.filter in applyAndRender / applyFiltersAndRender
Matches(p, r, f, qq) ==
  /\ (p = Explorer /\ qq # <<>>) => includes(Haystack(r), qq)
  /\ f["year"] # <<>> => YearKey(r) \in Range(f["year"])
  /\ \A d \in TagDims(p) :
       f[d] # <<>> => \E i \in 1..Len(EffectiveTags(r, d)) :
                         EffectiveTags(r, d)[i] \in Range(f[d])

FilterRows(p, rows, f, qq) == SelectSeq(rows, LAMBDA r : Matches(p, r, f, qq))

\* the comparator of rows.sort in applyAndRender (explorer)
CompareRows(a, b) ==
  LET ya == IF a.PublishDate.valid THEN a.PublishDate.year ELSE 0
      yb == IF b.PublishDate.valid THEN b.PublishDate.year ELSE 0
      ma == IF a.PublishDate.valid THEN a.PublishDate.month ELSE -1
      mb == IF b.PublishDate.valid THEN b.PublishDate.month ELSE -1
      ea == IF a.Episode = NoEpisode THEN 0 ELSE a.Episode
      eb == IF b.Episode = NoEpisode THEN 0 ELSE b.Episode
  IN IF yb - ya # 0 THEN yb - ya
     ELSE IF mb - ma # 0 THEN mb - ma
     ELSE IF eb - ea # 0 THEN eb - ea
     ELSE localeCompare(a.Title, b.Title)

SortRows(rows) == sort(rows, LAMBDA a, b : CompareRows(a, b) < 0)

----------------------------------------------------------------------------
(* Sort policies of the option lists *)

IsNone(a) == startsWith(a, <<"N","o"," ">>)

\* mutant of CompareWithNoneLast: the labels are compared as text
CompareWithNoneLastLexical(a, b) ==
  IF IsNone(a) /\ ~IsNone(b) THEN 1
  ELSE IF ~IsNone(a) /\ IsNone(b) THEN -1
  ELSE localeCompare(a, b)

CompareWithNoneLast(a, b) ==
  LET aNum == parseInt(a)
      bNum == parseInt(b)
  IN IF IsNone(a) /\ ~IsNone(b) THEN 1
     ELSE IF ~IsNone(a) /\ IsNone(b) THEN -1
     ELSE IF aNum[1] /\ bNum[1] THEN aNum[2] - bNum[2]
     ELSE IF aNum[1] /\ ~bNum[1] THEN -1
     ELSE IF ~aNum[1] /\ bNum[1] THEN 1
     ELSE localeCompare(a, b)

sortWithNoneLast(arr) == sort(arr, LAMBDA a, b : CompareWithNoneLast(a, b) < 0)

CompareAlphaNoneLast(a, b) ==
  IF IsNone(a) /\ ~IsNone(b) THEN 1
  ELSE IF ~IsNone(a) /\ IsNone(b) THEN -1
  ELSE localeCompare(a, b)

sortAlphaNoneLast(arr) == sort(arr, LAMBDA a, b : CompareAlphaNoneLast(a, b) < 0)

arrDesc(a) == sort(a, LAMBDA x, y : localeCompare(y, x) < 0)

arrAsc(a) == sort(a, LAMBDA x, y : localeCompare(x, y) < 0)

\* periodSortValue: the leading integer, 9999 for a label without one
periodSortValue(v) == IF parseInt(v)[1] THEN parseInt(v)[2] ELSE 9999

\* [...set].sort((a, b) => Number(b) - Number(a)) on year strings
SortYearsDesc(a) == sort(a, LAMBDA x, y : DigitsToInt(y) - DigitsToInt(x) < 0)

----------------------------------------------------------------------------
(* Option lists *)

\* the Set of year strings collected by rows.forEach: if (y) set.add(String(y))
RECURSIVE CollectYears(_)
CollectYears(rows) ==
  IF rows = <<>> THEN <<>>
  ELSE LET r == rows[Len(rows)]
           before == CollectYears(SubSeq(rows, 1, Len(rows) - 1))
       IN IF r.PublishDate.valid /\ r.PublishDate.year # 0
          THEN SetAdd(before, IntToStr(r.PublishDate.year))
          ELSE before

\* the Set of effective tags of dimension d collected by rows.forEach
RECURSIVE CollectTags(_, _)
CollectTags(rows, d) ==
  IF rows = <<>> THEN <<>>
  ELSE AddAll(CollectTags(SubSeq(rows, 1, Len(rows) - 1), d),
              EffectiveTags(rows[Len(rows)], d))

\* dataMap of buildFilterOptions
BuildOptionList(p, rows, d) ==
  CASE d = "year"   -> IF p = Explorer THEN arrDesc(CollectYears(rows))
                       ELSE SortYearsDesc(CollectYears(rows))
    [] d = "period" -> sortWithNoneLast(CollectTags(rows, d))
    [] OTHER        -> sortAlphaNoneLast(CollectTags(rows, d))

\* dataMap of buildFilterOptions of the three-dimension explorer
BuildOptionList_v0(rows, d) ==
  IF d = "year" THEN arrDesc(CollectYears(rows)) ELSE arrAsc(CollectTags(rows, d))

\* Object.keys(groupByMulti(rows, effective tags, active)): the group keys in
\* insertion order; under an active selection only the selected tags
RECURSIVE groupByMulti(_, _, _)
groupByMulti(rows, d, active) ==
  IF rows = <<>> THEN <<>>
  ELSE LET tags == EffectiveTags(rows[Len(rows)], d)
           relevant == IF active # <<>>
                       THEN SelectSeq(tags, LAMBDA t : t \in Range(active))
                       ELSE tags
       IN AddAll(groupByMulti(SubSeq(rows, 1, Len(rows) - 1), d, active), relevant)

\* the comparators of the group headings
CompareGroupKeys(d, a, b) ==
  IF IsNone(a) /\ ~IsNone(b) THEN 1
  ELSE IF ~IsNone(a) /\ IsNone(b) THEN -1
  ELSE IF d = "period" THEN periodSortValue(a) - periodSortValue(b)
  ELSE localeCompare(a, b)

\* the headings of renderGroupsByPeriod / ByRegion / ByTopic, in order
GroupKeys(rows, d, active) ==
  sort(groupByMulti(rows, d, active), LAMBDA a, b : CompareGroupKeys(d, a, b) < 0)

\* mutant of Relevant: the active selection is ignored
RelevantAll(tags, active) == tags

\* const relevant = activeFilterArray.length
\*   ? tags.filter(t => activeFilterArray.includes(t)) : tags
Relevant(tags, active) ==
  IF active # <<>> THEN SelectSeq(tags, LAMBDA t : t \in Range(active)) ELSE tags

\* if (!out[tag]) out[tag] = []; out[tag].push(r): out is the sequence of
\* the groups [key, rows] in the order their keys were inserted
PushUnder(out, tag, r) ==
  IF \E i \in 1..Len(out) : out[i].key = tag
  THEN [i \in 1..Len(out) |->
          IF out[i].key = tag THEN [out[i] EXCEPT !.rows = Append(@, r)] ELSE out[i]]
  ELSE Append(out, [key |-> tag, rows |-> <<r>>])

\* relevant.forEach(tag => ...)
RECURSIVE PushAll(_, _, _)
PushAll(out, tags, r) ==
  IF tags = <<>> THEN out
  ELSE PushAll(PushUnder(out, Head(tags), r), Tail(tags), r)

\* groupByMulti(rows, effective tags of d, active): the groups themselves
RECURSIVE groupByMultiOut(_, _, _)
groupByMultiOut(rows, d, active) ==
  IF rows = <<>> THEN <<>>
  ELSE PushAll(groupByMultiOut(SubSeq(rows, 1, Len(rows) - 1), d, active),
               Relevant(EffectiveTags(rows[Len(rows)], d), active),
               rows[Len(rows)])

\* the Set of a record's own tags of dimension d, no sentinel
RECURSIVE CollectOwnTags(_, _)
CollectOwnTags(rows, d) ==
  IF rows = <<>> THEN <<>>
  ELSE AddAll(CollectOwnTags(SubSeq(rows, 1, Len(rows) - 1), d),
              TagsOf(rows[Len(rows)], d))

\* mutant of CascadeOptionList: records without a tag contribute nothing
CascadeOptionListOwnTags(rows, d) ==
  CASE d = "year"   -> SortYearsDesc(CollectYears(rows))
    [] d = "period" -> sortWithNoneLast(CollectOwnTags(rows, d))
    [] OTHER        -> sortAlphaNoneLast(CollectOwnTags(rows, d))

\* "sorted" of rebuildFilterOptionsCascade
CascadeOptionList(rows, d) ==
  CASE d = "year"   -> SortYearsDesc(CollectYears(rows))
    [] d = "period" -> sortWithNoneLast(CollectTags(rows, d))
    [] OTHER        -> sortAlphaNoneLast(CollectTags(rows, d))

\* the set a checkbox created by buildFilterOptions writes to
BuildOwner(p, d) == d

\* owningSet of rebuildFilterOptionsCascade: the set a re-created checkbox of
\* dropdown d reads and writes
CascadeOwner(p, d) ==
  CASE d = "year"   -> "year"
    [] d = "period" -> "period"
    [] d = "region" -> "region"
    [] OTHER        -> "topic"

\* the set the change handler of the current checkboxes of dropdown d uses
OwnerOf(p, h, d) == IF h[d] = "cascade" THEN CascadeOwner(p, d) ELSE BuildOwner(p, d)

\* mutant of CascadeRebuilds: the active dropdown is rebuilt as well
CascadeRebuildsAlways(f, d) == TRUE

\* dropdowns.forEach of rebuildFilterOptionsCascade: does dropdown d get
\* rebuilt?  (if (active) return)
CascadeRebuilds(f, d) == f[d] = <<>>

\* rebuildFilterOptionsCascade with the panels present: the new option lists,
\* checked boxes and handlers
CascadeOptions(rows, f, opts) ==
  [d \in DOMAIN opts |->
     IF CascadeRebuilds(f, d) THEN CascadeOptionList(rows, d) ELSE opts[d]]

CascadeChecked(p, rows, f, chk) ==
  [d \in DOMAIN chk |->
     IF CascadeRebuilds(f, d)
     THEN {v \in Range(CascadeOptionList(rows, d)) : v \in Range(f[CascadeOwner(p, d)])}
     ELSE chk[d]]

CascadeHandler(f, h) ==
  [d \in DOMAIN h |-> IF CascadeRebuilds(f, d) THEN "cascade" ELSE h[d]]

\* renderChips: one chip per selected value, and on the explorer one for the
\* query
RenderChips(p, f, qq) ==
  UNION {{<<d, v>> : v \in Range(f[d])} : d \in DimSet(p)}
    \cup (IF p = Explorer /\ qq # <<>> THEN {<<"q", qq>>} ELSE {})

----------------------------------------------------------------------------
(* Aggregate tables of the stats page *)

Cards == <<"period", "region", "topic">>

\* how often tag t occurs in the sequence tags
Occurrences(tags, t) == Cardinality({i \in 1..Len(tags) : tags[i] = t})

\* map.get(tag) after rows.forEach of buildTagStats
RECURSIVE TagCount(_, _, _)
TagCount(rows, d, t) ==
  IF rows = <<>> THEN 0
  ELSE TagCount(Tail(rows), d, t) + Occurrences(EffectiveTags(Head(rows), d), t)

\* mutant of buildTagStats: the selector hands over a record's own tags, so
\* a record without a tag contributes to no row
buildTagStatsOwnTags(rows, d, totalEpisodes) ==
  LET labels == CollectOwnTags(rows, d)
  IN [i \in 1..Len(labels) |->
        [label |-> labels[i],
         count |-> TagCount(rows, d, labels[i]),
         pct   |-> IF totalEpisodes # 0
                   THEN [num |-> TagCount(rows, d, labels[i]) * 100, den |-> totalEpisodes]
                   ELSE [num |-> 0, den |-> 1]]]

\* buildTagStats(rows, r => effective tags, totalEpisodes): one row per map
\* entry in insertion order; pct = count / total * 100 kept as a fraction
buildTagStats(rows, d, totalEpisodes) ==
  LET labels == CollectTags(rows, d)
  IN [i \in 1..Len(labels) |->
        [label |-> labels[i],
         count |-> TagCount(rows, d, labels[i]),
         pct   |-> IF totalEpisodes # 0
                   THEN [num |-> TagCount(rows, d, labels[i]) * 100, den |-> totalEpisodes]
                   ELSE [num |-> 0, den |-> 1]]]

\* Array.from(new Set(tags))
Dedupe(tags) == AddAll(<<>>, tags)

\* map.get(tag) in buildTagStats of src/stats.js: one per record and tag
RECURSIVE TagCountOnce(_, _, _)
TagCountOnce(rows, d, t) ==
  IF rows = <<>> THEN 0
  ELSE TagCountOnce(Tail(rows), d, t)
         + Occurrences(Dedupe(EffectiveTags(Head(rows), d)), t)

\* buildTagStats of src/stats.js and of the first statistics page: the tags
\* of a record are made unique, pct = (count / totalEpisodes) * 100 without
\* a guard; den = 0 stands for the IEEE quotient by zero (Infinity)
buildTagStats_stats(rows, d, totalEpisodes) ==
  LET labels == CollectTags(rows, d)
  IN [i \in 1..Len(labels) |->
        [label |-> labels[i],
         count |-> TagCountOnce(rows, d, labels[i]),
         pct   |-> [num |-> TagCountOnce(rows, d, labels[i]) * 100,
                    den |-> totalEpisodes]]]

\* stats.sort((a, b) => b.count - a.count)
SortByCountDesc(stats) == sort(stats, LAMBDA a, b : b.count - a.count < 0)

NoTables == [c \in Range(Cards) |-> <<>>]

\* mutant of RenderTables: the percentages are taken of the filtered subset
RenderTablesOfFiltered(rows, totalAll) ==
  IF Len(rows) = 0 THEN NoTables
  ELSE [c \in Range(Cards) |-> SortByCountDesc(buildTagStats(rows, c, Len(rows)))]

\* the three renderStatsTable calls of applyFiltersAndRender
RenderTables(rows, totalAll) ==
  IF Len(rows) = 0 THEN NoTables
  ELSE [c \in Range(Cards) |-> SortByCountDesc(buildTagStats(rows, c, totalAll))]

----------------------------------------------------------------------------
(* Year series of the line charts *)

\* a cell without a value (null)
NoCount == -1

\* the publish years of the episodes, each once, ascending
ChartYears(episodes) ==
  LET dated == SelectSeq(episodes,
                 LAMBDA e : e.PublishDate.valid /\ e.PublishDate.year # 0)
      ys == [i \in 1..Len(dated) |-> dated[i].PublishDate.year]
  IN sort(Dedupe(ys), LAMBDA a, b : a - b < 0)

\* episodes.filter(e => e.PubDate && getFullYear() === y && e[tagField].includes(tag)).length
ChartCount(episodes, d, tag, y) ==
  Len(SelectSeq(episodes,
        LAMBDA e : /\ e.PublishDate.valid
                   /\ e.PublishDate.year = y
                   /\ tag \in Range(TagsOf(e, d))))

\* renderLineChart of the five-dimension statistics page: the chart data for
\* tag dimension d under the active selection of d
renderLineChart(episodes, d, active) ==
  LET years == ChartYears(episodes)
      tags == CollectOwnTags(episodes, d)
      kept == IF active # <<>>
              THEN SelectSeq(tags, LAMBDA t : t \in Range(active)) ELSE tags
      tagList == IF d = "period" THEN sortWithNoneLast(kept)
                 ELSE sortAlphaNoneLast(kept)
  IN IF episodes = <<>> THEN [labels |-> <<>>, datasets |-> <<>>]
     ELSE [labels |-> years,
           datasets |->
             [i \in 1..Len(tagList) |->
                [label |-> stripPrefix(tagList[i]),
                 data |-> [k \in 1..Len(years) |->
                             LET cnt == ChartCount(episodes, d, tagList[i], years[k])
                             IN IF cnt > 0 THEN cnt ELSE NoCount]]]]

\* renderLineChart of the first statistics page
renderLineChart_v0(episodes, d) ==
  LET allYears == ChartYears(episodes)
      tagList == CollectOwnTags(episodes, d)
  IN [labels |-> allYears,
      datasets |->
        [i \in 1..Len(tagList) |->
           [label |-> tagList[i],
            data |-> [k \in 1..Len(allYears) |->
                        ChartCount(episodes, d, tagList[i], allYears[k])]]]]

----------------------------------------------------------------------------
(* URL synchronisation: the query string as a URLSearchParams map *)

NoParams == [k \in {} |-> <<>>]

\* the parameter name of a dropdown key
ParamName(d) ==
  CASE d = "year"   -> "years"
    [] d = "period" -> "periods"
    [] d = "region" -> "regions"
    [] d = "topic"  -> "topics"
    [] d = "series" -> "series"

\* the dimensions updateUrlFromState writes and loadStateFromUrl reads
UrlDims(p) == DimSet(p)

\* updateUrlFromState
updateUrlFromState(p, f, qq, g) ==
  LET written == {d \in UrlDims(p) : f[d] # <<>>}
      keys == {ParamName(d) : d \in written}
                \cup (IF p = Explorer /\ qq # <<>> THEN {"q"} ELSE {})
                \cup (IF p = Explorer /\ g # "" THEN {"group"} ELSE {})
  IN [k \in keys |->
        IF k = "q" THEN qq
        ELSE IF k = "group" THEN g
        ELSE join(f[CHOOSE d \in written : ParamName(d) = k])]

\* loadStateFromUrl: the filter sets, query and grouping mode after reading
\* params into the state (f, qq, g)
loadStateFromUrl(p, params, f, qq, g) ==
  [filters |-> [d \in DOMAIN f |->
                  IF d \in UrlDims(p) /\ ParamName(d) \in DOMAIN params
                  THEN AddAll(f[d], split(params[ParamName(d)]))
                  ELSE f[d]],
   q       |-> IF p = Explorer /\ "q" \in DOMAIN params
               THEN toLowerCase(params["q"]) ELSE qq,
   groupBy |-> IF p = Explorer /\ "group" \in DOMAIN params
               THEN params["group"] ELSE g]

\* the URLs a page is opened with
StartUrls ==
  { NoParams,
    [k \in {"group", "periods", "q", "series"} |->
       CASE k = "group"   -> "topic"
         [] k = "q"       -> <<"E","U">>
         [] k = "periods" -> <<"2","."," ","B">>
         [] k = "series"  -> <<"S","1">>] }

----------------------------------------------------------------------------
(* State *)

EmptyFilters(p) == [d \in DimSet(p) |-> <<>>]

\* the group-by pills that get clicked
GroupModes == {"date", "topic"}

\* what the user can type into the search box
QueryTexts == { <<>>, <<" ","E","u">> }

Init ==
  /\ page \in {Explorer, Stats}
  /\ startUrl \in StartUrls
  /\ sheet \in {<<>>, SubSeq(Sheet, 1, MaxRows)}
  /\ phase = "init"
  /\ raw = <<>>
  /\ filtered = <<>>
  /\ groupBy = "date"
  /\ filters = EmptyFilters(page)
  /\ q = <<>>
  /\ qBox = <<>>
  /\ options = [d \in DimSet(page) |-> <<>>]
  /\ checked = [d \in DimSet(page) |-> {}]
  /\ handler = [d \in DimSet(page) |-> "none"]
  /\ chips = {}
  /\ pendingApply = FALSE
  /\ pendingQ = FALSE
  /\ burst = 0
  /\ url = startUrl
  /\ tables = NoTables
  /\ last = "init"
  /\ fn = "none"
  /\ arg = <<>>
  /\ ret = <<>>

PanelsExist == phase = "loaded"

Selected(f) == UNION {{<<d, v>> : v \in Range(f[d])} : d \in DOMAIN f}

----------------------------------------------------------------------------
(* Recompute *)

\* applyUrlStateToUI: every checkbox is checked iff its value is selected
UrlChecked(f, opts) ==
  [d \in DOMAIN opts |-> {v \in Range(opts[d]) : v \in Range(f[d])}]

\* mutant of RawAfterApply: the filtered, sorted rows replace the collection
RawAssignedFiltered(rows0, rows) == rows

\* applyAndRender filters and sorts state.raw.slice(), a copy, and assigns
\* the result to state.filtered only: state.raw is what it was
RawAfterApply(rows0, rows) == rows0

\* applyAndRender (explorer) under filter sets f, query qq, grouping mode g
ApplyAndRender(f, qq, g, chk) ==
  LET rows == SortRows(FilterRows(Explorer, raw, f, qq))
  IN /\ raw' = RawAfterApply(raw, rows)
     /\ filtered' = rows
     /\ options' = IF PanelsExist THEN CascadeOptions(rows, f, options) ELSE options
     /\ checked' = IF PanelsExist THEN CascadeChecked(Explorer, rows, f, chk) ELSE chk
     /\ handler' = IF PanelsExist THEN CascadeHandler(f, handler) ELSE handler
     /\ chips' = RenderChips(Explorer, f, qq)
     /\ url' = updateUrlFromState(Explorer, f, qq, g)
     /\ tables' = tables
     /\ burst' = 0
     /\ last' = "recompute"

\* mutant of DebouncedApply: the trigger leaves the timer as it was
DebouncedApplyLost ==
  /\ burst < MaxBurst
  /\ burst' = burst + 1
  /\ pendingApply' = pendingApply

\* debouncedApply(): (re)start the 220 ms timer of applyAndRender
DebouncedApply ==
  /\ burst < MaxBurst
  /\ burst' = burst + 1
  /\ pendingApply' = TRUE

\* rebuildFilterOptionsCascade of the stats page dereferences the panel of
\* every dropdown it rebuilds: without panels that is a TypeError
CascadeThrows(p, panels, f) ==
  p = Stats /\ ~panels /\ \E d \in DimSet(p) : CascadeRebuilds(f, d)

\* applyFiltersAndRender (stats) under filter sets f over the collection
\* rows0, with option lists opts, checked boxes chk, handlers h, location u
ApplyFiltersAndRender(f, rows0, panels, opts, chk, h, u) ==
  LET rows == FilterRows(Stats, rows0, f, <<>>)
  IN /\ filtered' = rows
     /\ IF CascadeThrows(Stats, panels, f)
        THEN /\ options' = opts
             /\ checked' = chk
             /\ handler' = h
             /\ chips' = chips
             /\ tables' = tables
             /\ url' = u
             /\ last' = "error"
        ELSE /\ options' = IF panels THEN CascadeOptions(rows, f, opts) ELSE opts
             /\ checked' = IF panels THEN CascadeChecked(Stats, rows, f, chk) ELSE chk
             /\ handler' = IF panels THEN CascadeHandler(f, h) ELSE h
             /\ chips' = RenderChips(Stats, f, <<>>)
             /\ tables' = RenderTables(rows, Len(rows0))
             /\ url' = IF Len(rows) = 0 THEN u
                       ELSE updateUrlFromState(Stats, f, <<>>, "")
             /\ last' = "recompute"

----------------------------------------------------------------------------
(* Handlers *)

\* DOMContentLoaded: bootstrap() of the explorer (loadStateFromUrl, then
\* setupGroupByPills), the listener of the stats page; both start the fetch
Bootstrap ==
  /\ phase = "init"
  /\ phase' = "fetching"
  /\ IF page = Explorer
     THEN LET st == loadStateFromUrl(Explorer, url, filters, q, groupBy)
          IN /\ filters' = st.filters
             /\ q' = st.q
             /\ groupBy' = "date"
     ELSE UNCHANGED <<filters, q, groupBy>>
  /\ last' = "bootstrap"
  /\ UNCHANGED <<fn, arg, ret, page, startUrl, sheet, raw, filtered, qBox, options, checked,
                 handler, chips, pendingApply, pendingQ, burst, url, tables>>

\* loadCsv(...).then(rows => ...)
FetchResolve ==
  /\ phase = "fetching"
  /\ phase' = "loaded"
  /\ raw' = LoadRows(page, sheet)
  /\ IF page = Explorer
     THEN LET opts == [d \in DimSet(page) |-> BuildOptionList(page, raw', d)]
          IN /\ options' = opts
             /\ handler' = [d \in DimSet(page) |-> "build"]
             /\ checked' = UrlChecked(filters, opts)
             /\ qBox' = IF q # <<>> THEN q ELSE qBox
             /\ pendingApply' = TRUE
             /\ burst' = burst
             /\ last' = "load"
             /\ UNCHANGED <<filtered, filters, q, chips, url, tables>>
     ELSE LET opts == [d \in DimSet(page) |-> BuildOptionList(page, raw', d)]
              st == loadStateFromUrl(Stats, url, filters, q, groupBy)
          IN /\ filters' = st.filters
             /\ ApplyFiltersAndRender(st.filters, raw', TRUE, opts,
                                      UrlChecked(st.filters, opts),
                                      [d \in DimSet(page) |-> "build"],
                                      updateUrlFromState(Stats, st.filters, <<>>, ""))
             /\ UNCHANGED <<q, qBox, pendingApply, burst>>
  /\ UNCHANGED <<fn, arg, ret, page, startUrl, sheet, groupBy, pendingQ>>

\* loadCsv(...).catch(err => ...)
FetchFail ==
  /\ phase = "fetching"
  /\ phase' = "failed"
  /\ last' = "fail"
  /\ UNCHANGED <<fn, arg, ret, page, startUrl, sheet, raw, filtered, groupBy, filters, q, qBox,
                 options, checked, handler, chips, pendingApply, pendingQ, burst,
                 url, tables>>

\* the "change" listener of the checkbox of value v in dropdown d
ToggleOption(d, v) ==
  /\ PanelsExist
  /\ d \in DimSet(page)
  /\ v \in Range(options[d])
  /\ LET nowChecked == v \notin checked[d]
         owner == OwnerOf(page, handler, d)
         f == [filters EXCEPT ![owner] =
                 IF nowChecked THEN SetAdd(@, v) ELSE SetDelete(@, v)]
         chk == [checked EXCEPT ![d] =
                 IF nowChecked THEN @ \cup {v} ELSE @ \ {v}]
     IN /\ Cardinality(Selected(f)) <= MaxSelected
        /\ filters' = f
        /\ IF page = Explorer
           THEN /\ checked' = chk
                /\ DebouncedApply
                /\ last' = "mutate"
                /\ UNCHANGED <<filtered, options, handler, chips, url, tables>>
           ELSE /\ ApplyFiltersAndRender(f, raw, TRUE, options, chk, handler, url)
                /\ UNCHANGED <<pendingApply, burst>>
  /\ UNCHANGED <<fn, arg, ret, page, startUrl, sheet, phase, raw, groupBy, q, qBox, pendingQ>>

\* uncheck(key, value)
Uncheck(chk, d, v) == IF PanelsExist THEN [chk EXCEPT ![d] = @ \ {v}] ELSE chk

\* the click listener of the remove button of chip c
RemoveChip(c) ==
  /\ c \in chips
  /\ IF page = Explorer
     THEN /\ IF c[1] = "q"
             THEN /\ qBox' = <<>>
                  /\ q' = <<>>
                  /\ UNCHANGED <<filters, checked>>
             ELSE /\ filters' = [filters EXCEPT ![c[1]] = SetDelete(@, c[2])]
                  /\ checked' = Uncheck(checked, c[1], c[2])
                  /\ UNCHANGED <<q, qBox>>
          /\ DebouncedApply
          /\ last' = "mutate"
          /\ UNCHANGED <<filtered, options, handler, chips, url, tables>>
     ELSE LET f == [filters EXCEPT ![c[1]] = SetDelete(@, c[2])]
          IN /\ filters' = f
             /\ ApplyFiltersAndRender(f, raw, PanelsExist, options,
                                      Uncheck(checked, c[1], c[2]), handler, url)
             /\ UNCHANGED <<q, qBox, pendingApply, burst>>
  /\ UNCHANGED <<fn, arg, ret, page, startUrl, sheet, phase, raw, groupBy, pendingQ>>

\* the sets resetFilters clears
ResetDims(p) == {"year", "period", "region", "topic"}

\* resetFilters: the click listener of the Clear button
ResetFilters ==
  /\ phase # "init"
  /\ LET f == [d \in DimSet(page) |-> IF d \in ResetDims(page) THEN <<>> ELSE filters[d]]
         chk == [d \in DimSet(page) |-> {}]
     IN /\ filters' = f
        /\ IF page = Explorer
           THEN /\ qBox' = <<>>
                /\ q' = <<>>
                /\ checked' = chk
                /\ DebouncedApply
                /\ last' = "mutate"
                /\ UNCHANGED <<filtered, options, handler, chips, url, tables>>
           ELSE /\ ApplyFiltersAndRender(f, raw, PanelsExist, options, chk, handler, url)
                /\ UNCHANGED <<q, qBox, pendingApply, burst>>
  /\ UNCHANGED <<fn, arg, ret, page, startUrl, sheet, phase, raw, groupBy, pendingQ>>

\* the "input" listener of the search box (explorer): restarts its timer
TypeQuery(t) ==
  /\ page = Explorer
  /\ phase # "init"
  /\ t # qBox
  /\ qBox' = t
  /\ burst < MaxBurst
  /\ burst' = burst + 1
  /\ pendingQ' = TRUE
  /\ last' = "input"
  /\ UNCHANGED <<fn, arg, ret, page, startUrl, sheet, phase, raw, filtered, groupBy, filters, q,
                 options, checked, handler, chips, pendingApply, url, tables>>

\* the timer of the search box fires: read the box, applyAndRender
QueryTimerFires ==
  /\ page = Explorer
  /\ pendingQ
  /\ pendingQ' = FALSE
  /\ q' = toLowerCase(trim(qBox))
  /\ ApplyAndRender(filters, q', groupBy, checked)
  /\ UNCHANGED <<fn, arg, ret, page, startUrl, sheet, phase, groupBy, filters, qBox,
                 pendingApply>>

\* the click listener of a group-by pill (explorer)
ClickGroupPill(g) ==
  /\ page = Explorer
  /\ phase # "init"
  /\ groupBy' = g
  /\ DebouncedApply
  /\ last' = "mutate"
  /\ UNCHANGED <<fn, arg, ret, page, startUrl, sheet, phase, raw, filtered, filters, q, qBox,
                 options, checked, handler, chips, pendingQ, url, tables>>

\* the timer of debouncedApply fires: applyAndRender
ApplyTimerFires ==
  /\ page = Explorer
  /\ pendingApply
  /\ pendingApply' = FALSE
  /\ ApplyAndRender(filters, q, groupBy, checked)
  /\ UNCHANGED <<fn, arg, ret, page, startUrl, sheet, phase, groupBy, filters, q, qBox,
                 pendingQ>>

Next ==
  \/ Bootstrap
  \/ FetchResolve
  \/ FetchFail
  \/ \E d \in DimSet(page) : \E v \in Range(options[d]) : ToggleOption(d, v)
  \/ \E c \in chips : RemoveChip(c)
  \/ ResetFilters
  \/ \E t \in QueryTexts : TypeQuery(t)
  \/ QueryTimerFires
  \/ \E g \in GroupModes : ClickGroupPill(g)
  \/ ApplyTimerFires

Spec == Init /\ [][Next]_vars

\* the callback of the timer of debouncedApply runs, seen on the timer
\* alone: within Next this is a step of ApplyTimerFires and no other
TimerFires == page = Explorer /\ pendingApply /\ pendingApply' = FALSE

\* a timer started by setTimeout and not cleared runs its callback: the
\* pending recompute of debouncedApply is not postponed for ever
FairSpec == Spec /\ WF_pendingApply(TimerFires)

----------------------------------------------------------------------------
(* The helper functions called on their own: the argument is drawn in the   *)
(* initial state, one step applies the function named by fn and stores the  *)
(* result in ret.                                                           *)

\* longest raw field text
MaxFieldLen == 4

\* the characters a raw field is made of
FieldChars == {"A", ",", " ", "1", "."}

\* all texts of at most n characters
RECURSIVE Texts(_)
Texts(n) ==
  IF n = 0 THEN {<<>>}
  ELSE Texts(n - 1) \cup {Append(s, c) : s \in Texts(n - 1), c \in FieldChars}

\* the raw cell values of a sheet column
RawFields == Texts(MaxFieldLen)

pageVars == <<page, startUrl, sheet, phase, raw, filtered, groupBy, filters, q,
              qBox, options, checked, handler, chips, pendingApply, pendingQ,
              burst, url, tables>>

\* the page itself stays as constructed, nothing loaded
PageIdle ==
  /\ page = Stats
  /\ startUrl = NoParams
  /\ sheet = <<>>
  /\ phase = "init"
  /\ raw = <<>>
  /\ filtered = <<>>
  /\ groupBy = "date"
  /\ filters = EmptyFilters(Stats)
  /\ q = <<>>
  /\ qBox = <<>>
  /\ options = [d \in DimSet(Stats) |-> <<>>]
  /\ checked = [d \in DimSet(Stats) |-> {}]
  /\ handler = [d \in DimSet(Stats) |-> "none"]
  /\ chips = {}
  /\ pendingApply = FALSE
  /\ pendingQ = FALSE
  /\ burst = 0
  /\ url = NoParams
  /\ tables = NoTables

\* longest record list handed to an aggregating function
MaxRecs == 2

\* the raw tag cells and publish dates of the rows behind those records
TagFields ==
  { <<>>, <<"A">>, <<"Z">>, <<"A", ",", "Z">>, <<"A", ",", "A">> }

DateFields ==
  { <<"2","0","2","0","-","0","3">>, <<"2","0","2","1","-","0","5">>,
    <<"s","o","o","n">> }

\* the tag dimensions the functions are called for
LibDims == {"period", "topic"}

\* a sheet row with tag cell field in the column of dimension d
LibRow(d, field, date) ==
  MkRow(<<"1">>, <<"T">>, date, <<>>,
        IF d = "region" THEN field ELSE <<>>,
        IF d = "period" THEN field ELSE <<>>,
        IF d = "topic" THEN field ELSE <<>>,
        <<>>)

\* the records the load handlers make of such rows
LibRecords(d) ==
  {Normalize(Stats, LibRow(d, f, dt)) : f \in TagFields, dt \in DateFields}

\* all sequences of at most n elements of S
RECURSIVE Lists(_, _)
Lists(S, n) ==
  IF n = 0 THEN {<<>>}
  ELSE Lists(S, n - 1) \cup {Append(l, x) : l \in Lists(S, n - 1), x \in S}

\* rows and tag dimension of an aggregating call
RowArgs ==
  UNION {{[rows |-> rs, dim |-> d] : rs \in Lists(LibRecords(d), MaxRecs)} : d \in LibDims}

\* rows, tag dimension and totalEpisodes of a buildTagStats call
StatsArgs ==
  {[rows |-> a.rows, dim |-> a.dim, total |-> n] : a \in RowArgs, n \in 0..MaxRecs}

\* rows, tag dimension and active selection of a grouped view
GroupArgs ==
  {[rows |-> a.rows, dim |-> a.dim, active |-> act] :
     a \in RowArgs, act \in {<<>>, <<<<"A">>>>}}

\* longest list of labels handed to a sort policy
MaxLabels == 4

\* the labels that get sorted
PeriodLabels ==
  { <<"3", ".", " ", "G">>, <<"1", ".", " ", "B">>, <<"2", ".", " ", "S">>,
    <<"1", "0", ".", " ", "Z">>, <<"A", "b">>, NoPeriod, NoTopic }

\* the pairs of labels handed to a comparator
LabelPairs ==
  LET ls == PeriodLabels \cup {<<"1", ".", " ", "I">>}
  IN {<<a, b>> : a \in ls, b \in ls}

\* the records handed to the canonical sort: with or without an episode
\* ordinal, with or without a date
SortRecords ==
  {Normalize(Explorer, MkRow(ep, title, dt, <<>>, <<>>, <<>>, <<>>, <<>>)) :
     ep \in {<<>>, <<"0">>, <<"2">>},
     title \in {<<"A">>, <<"b">>},
     dt \in DateFields \cup {<<"2","0","2","0","-","0","7">>}}

\* the arguments each function is called with
ArgsOf(f) ==
  CASE f = "parseTags"           -> RawFields
    [] f = "parseTags_stats"     -> RawFields
    [] f = "stripPrefix"         -> RawFields
    [] f = "buildTagStats"       -> StatsArgs
    [] f = "buildTagStats_stats" -> StatsArgs
    [] f = "renderLineChart"     -> RowArgs
    [] f = "renderLineChart_v0"  -> RowArgs
    [] f = "sortWithNoneLast"    -> Lists(PeriodLabels, MaxLabels)
    [] f = "buildFilterOptions"  -> RowArgs
    [] f = "buildFilterOptions_v0" -> {a \in RowArgs : a.dim = "period"}
    [] f = "rebuildFilterOptionsCascade" -> RowArgs
    [] f = "renderGroups"        -> GroupArgs
    [] f = "compareWithNoneLast" -> LabelPairs
    [] f = "rows.sort"           -> Lists(SortRecords, MaxRecs)
    [] f = "groupByMulti"        -> GroupArgs
    [] f = "compareAlphaNoneLast" -> LabelPairs

Functions ==
  {"parseTags", "parseTags_stats", "stripPrefix", "buildTagStats",
   "buildTagStats_stats", "renderLineChart", "renderLineChart_v0",
   "sortWithNoneLast", "buildFilterOptions", "buildFilterOptions_v0",
   "rebuildFilterOptionsCascade", "renderGroups", "compareWithNoneLast",
   "compareAlphaNoneLast", "rows.sort", "groupByMulti"}

LibInit ==
  /\ PageIdle
  /\ fn \in Functions
  /\ arg \in ArgsOf(fn)
  /\ ret = <<>>
  /\ last = "init"

\* the call returns r
Return(r) ==
  /\ last = "init"
  /\ ret' = r
  /\ last' = "return"
  /\ UNCHANGED <<fn, arg>>
  /\ UNCHANGED pageVars

CallParseTags == fn = "parseTags" /\ Return(parseTags(arg))

CallParseTagsStats == fn = "parseTags_stats" /\ Return(parseTags_stats(arg))

\* stripPrefix applied once and applied to its own result
CallStripPrefix ==
  fn = "stripPrefix" /\ Return(<<stripPrefix(arg), stripPrefix(stripPrefix(arg))>>)

CallBuildTagStats ==
  fn = "buildTagStats" /\ Return(buildTagStats(arg.rows, arg.dim, arg.total))

CallBuildTagStatsStats ==
  fn = "buildTagStats_stats"
    /\ Return(buildTagStats_stats(arg.rows, arg.dim, arg.total))

\* the statistics page draws the chart of dimension d under its selection
CallRenderLineChart ==
  fn = "renderLineChart"
    /\ Return(renderLineChart(arg.rows, arg.dim, filters[arg.dim]))

CallRenderLineChartV0 ==
  fn = "renderLineChart_v0" /\ Return(renderLineChart_v0(arg.rows, arg.dim))

CallSortWithNoneLast == fn = "sortWithNoneLast" /\ Return(sortWithNoneLast(arg))

\* the option list buildFilterOptions makes for dimension d
CallBuildFilterOptions ==
  fn = "buildFilterOptions" /\ Return(BuildOptionList(Explorer, arg.rows, arg.dim))

CallBuildFilterOptionsV0 ==
  fn = "buildFilterOptions_v0" /\ Return(BuildOptionList_v0(arg.rows, arg.dim))

\* the option list a cascade rebuild makes for dimension d
CallCascade ==
  fn = "rebuildFilterOptionsCascade" /\ Return(CascadeOptionList(arg.rows, arg.dim))

\* the headings of the view grouped by dimension d
CallRenderGroups ==
  fn = "renderGroups" /\ Return(GroupKeys(arg.rows, arg.dim, arg.active))

\* the comparator of sortWithNoneLast on (a, b) and on (b, a), and the two
\* labels sorted when supplied in either order
CallCompareWithNoneLast ==
  fn = "compareWithNoneLast"
    /\ Return([ab |-> CompareWithNoneLast(arg[1], arg[2]),
               ba |-> CompareWithNoneLast(arg[2], arg[1]),
               sortedAB |-> sortWithNoneLast(<<arg[1], arg[2]>>),
               sortedBA |-> sortWithNoneLast(<<arg[2], arg[1]>>)])

CallCompareAlphaNoneLast ==
  fn = "compareAlphaNoneLast"
    /\ Return([ab |-> CompareAlphaNoneLast(arg[1], arg[2]),
               ba |-> CompareAlphaNoneLast(arg[2], arg[1]),
               sortedAB |-> sortAlphaNoneLast(<<arg[1], arg[2]>>),
               sortedBA |-> sortAlphaNoneLast(<<arg[2], arg[1]>>)])

\* rows.sort(...) of applyAndRender
CallSortRows == fn = "rows.sort" /\ Return(SortRows(arg))

\* applyAndRender under the selection arg.active of dimension arg.dim, then
\* the grouped view of that dimension: the filtered rows and their groups
CallGroupByMulti ==
  fn = "groupByMulti"
    /\ LET f == [EmptyFilters(Explorer) EXCEPT ![arg.dim] = arg.active]
           rows == FilterRows(Explorer, arg.rows, f, <<>>)
       IN Return([rows |-> rows,
                  groups |-> groupByMultiOut(rows, arg.dim, arg.active)])

LibNext ==
  \/ CallParseTags
  \/ CallParseTagsStats
  \/ CallStripPrefix
  \/ CallBuildTagStats
  \/ CallBuildTagStatsStats
  \/ CallRenderLineChart
  \/ CallRenderLineChartV0
  \/ CallSortWithNoneLast
  \/ CallBuildFilterOptions
  \/ CallBuildFilterOptionsV0
  \/ CallCascade
  \/ CallRenderGroups
  \/ CallCompareWithNoneLast
  \/ CallCompareAlphaNoneLast
  \/ CallSortRows
  \/ CallGroupByMulti

LibSpec == LibInit /\ [][LibNext]_vars

----------------------------------------------------------------------------
(* Claims *)

\* the effective tag set of record r in dimension d, the year included: the
\* publish year as a string, nothing for a record without a date
EffectiveSet(r, d) ==
  IF d = "year"
  THEN (IF r.PublishDate.valid THEN {IntToStr(r.PublishDate.year)} ELSE {})
  ELSE (IF TagsOf(r, d) = <<>> THEN {Sentinel(d)} ELSE Range(TagsOf(r, d)))

\* the effective tags carried by the records of rows in dimension d
CarriedTags(rows, d) == UNION {EffectiveSet(rows[i], d) : i \in 1..Len(rows)}

\* the step is a completed recompute on a page whose panels exist
RecomputeStep == last' = "recompute" /\ phase = "loaded" /\ phase' = "loaded"

\* C1 (cascade skip): in every recompute, a dimension whose selection set is
\* non-empty keeps the option list it had before the recompute.
C1_CascadeSkip ==
  [][RecomputeStep =>
       \A d \in DimSet(page) : filters'[d] # <<>> => options'[d] = options[d]]_vars

\* a recompute has left a constrained dimension with a list that a rebuild
\* from the filtered subset would not give
C1_Witness ==
  /\ last = "recompute"
  /\ PanelsExist
  /\ \E d \in DimSet(page) :
        filters[d] # <<>> /\ options[d] # CascadeOptionList(filtered, d)

\* C2 (cascade narrowing): after every recompute, the option list of a tag
\* dimension with an empty selection set holds exactly the effective tags of
\* the filtered records, each once.
C2_CascadeNarrowing ==
  (last = "recompute" /\ PanelsExist) =>
     \A d \in TagDims(page) :
        filters[d] = <<>> =>
           /\ Range(options[d]) = CarriedTags(filtered, d)
           /\ Cardinality(Range(options[d])) = Len(options[d])

\* a recompute has narrowed the list of an unconstrained tag dimension
C2_Witness ==
  /\ last = "recompute"
  /\ PanelsExist
  /\ filtered # <<>>
  /\ \E d \in TagDims(page) :
        /\ filters[d] = <<>>
        /\ Range(options[d]) # CarriedTags(raw, d)

\* C3 (selected values never vanish): from an empty filter state, after any
\* toggles, chip removals, query changes and clear-all followed by a
\* recompute, every selected value is in the option list of its dimension.
C3_SelectedNeverVanish ==
  (startUrl = NoParams /\ last = "recompute" /\ PanelsExist) =>
     \A d \in DimSet(page) : Range(filters[d]) \subseteq Range(options[d])

C5_ToggleFrame ==
  [][\A d \in DimSet(page) : \A v \in Range(options[d]) :
        ToggleOption(d, v) =>
           /\ \A e \in DimSet(page) \ {d} : filters'[e] = filters[e]
           /\ Range(filters'[d]) \in {Range(filters[d]) \cup {v}, Range(filters[d]) \ {v}}
           /\ Range(filters'[d]) # Range(filters[d]) \/ v \in Range(filters[d])
           /\ q' = q]_vars

\* C6 (clear all): after resetFilters the selection set of every dimension of
\* the page is empty, and so is the query.
C6_ClearAll ==
  [][ResetFilters => (q' = <<>> /\ \A d \in DimSet(page) : filters'[d] = <<>>)]_vars

\* the filter state read back from the location u by a fresh page
Decoded(u) == loadStateFromUrl(page, u, EmptyFilters(page), <<>>, "date")

\* C7 (URL round-trip): reading the query string written for the current
\* filter state into a fresh state gives the same selection sets and query.
C7_UrlRoundTrip ==
  LET st == Decoded(updateUrlFromState(page, filters, q, groupBy))
  IN /\ \A d \in DimSet(page) : Range(st.filters[d]) = Range(filters[d])
     /\ st.q = q

\* a state with two values selected in one dimension
C7_Witness ==
  /\ phase = "loaded"
  /\ \E d \in DimSet(page) : Len(filters[d]) >= 2

\* C8 (grouping mode survives startup): once bootstrap has finished on a URL
\* with group parameter G, the grouping mode is G.
C8_GroupSurvivesStartup ==
  (page = Explorer /\ last = "bootstrap" /\ "group" \in DOMAIN startUrl) =>
     groupBy = startUrl["group"]

\* C9 (URL follows state): after every completed recompute the query string
\* encodes the filter state the recompute used.
C9_UrlFollowsState ==
  last = "recompute" =>
     /\ \A d \in DimSet(page) : Range(Decoded(url).filters[d]) = Range(filters[d])
     /\ Decoded(url).q = q

\* C10 (empty result): a recompute that yields no record gives every
\* dimension with an empty selection set an empty option list and empty
\* aggregate tables, and raises no error.
C10_EmptyResult ==
  (last \in {"recompute", "error"} /\ filtered = <<>>) =>
     /\ last # "error"
     /\ \A d \in DimSet(page) : filters[d] = <<>> => options[d] = <<>>
     /\ \A c \in Range(Cards) : tables[c] = <<>>

\* the call named f has returned
Returned(f) == fn = f /\ last = "return"

\* C11 (tag-sequence invariant): the sequence parseTags returns holds no
\* empty string and no string twice.
C11_TagsDuplicateFree ==
  (Returned("parseTags") \/ Returned("parseTags_stats")) =>
     /\ \A i \in 1..Len(ret) : ret[i] # <<>>
     /\ \A i, j \in 1..Len(ret) : i # j => ret[i] # ret[j]

\* C12 (stripPrefix idempotent): stripping the result of stripPrefix again
\* changes nothing.
C12_StripIdempotent ==
  Returned("stripPrefix") => ret[2] = ret[1]

\* the tags record r has in dimension d, the sentinel for a record without
EffTags(r, d) == IF TagsOf(r, d) = <<>> THEN {Sentinel(d)} ELSE Range(TagsOf(r, d))

\* the number of records of rows that carry effective tag t in dimension d
RecordsWith(rows, d, t) == Cardinality({i \in 1..Len(rows) : t \in EffTags(rows[i], d)})

\* C13 (aggregation counts): buildTagStats returns one row per distinct
\* effective tag of the list, and the count of a row is the number of
\* records whose effective tag set holds the tag.
C13_AggregationCounts ==
  (Returned("buildTagStats") \/ Returned("buildTagStats_stats")) =>
     /\ {ret[i].label : i \in 1..Len(ret)}
          = UNION {EffTags(arg.rows[i], arg.dim) : i \in 1..Len(arg.rows)}
     /\ \A i, j \in 1..Len(ret) : i # j => ret[i].label # ret[j].label
     /\ \A i \in 1..Len(ret) :
           ret[i].count = RecordsWith(arg.rows, arg.dim, ret[i].label)

\* C15 (zero denominator): buildTagStats called with totalEpisodes 0 returns
\* percentage 0 in every row.
C15_ZeroDenominator ==
  ((Returned("buildTagStats") \/ Returned("buildTagStats_stats")) /\ arg.total = 0) =>
     \A i \in 1..Len(ret) : ret[i].pct.num = 0 /\ ret[i].pct.den # 0

\* the sum of the counts of the rows of stats
RECURSIVE SumCounts(_)
SumCounts(stats) ==
  IF stats = <<>> THEN 0 ELSE Head(stats).count + SumCounts(Tail(stats))

\* every record of rows has at most one tag in dimension d
SingleValued(rows, d) == \A i \in 1..Len(rows) : Len(TagsOf(rows[i], d)) <= 1

\* C16 (aggregation sum), as claimed: over records with at most one tag each,
\* the counts of all rows add up to the number of records that have a tag.
C16_SumIsTaggedRecords ==
  ((Returned("buildTagStats") \/ Returned("buildTagStats_stats"))
      /\ SingleValued(arg.rows, arg.dim)) =>
     SumCounts(ret) = Cardinality({i \in 1..Len(arg.rows) : TagsOf(arg.rows[i], arg.dim) # <<>>})

\* C16 (aggregation sum), amended: over records with at most one tag each,
\* the counts of all rows add up to the number of records of the list; the
\* records without a tag are counted in the sentinel row.
C16_SumIsAllRecords ==
  ((Returned("buildTagStats") \/ Returned("buildTagStats_stats"))
      /\ SingleValued(arg.rows, arg.dim)) =>
     SumCounts(ret) = Len(arg.rows)

\* an aggregation over single-tag records, one of them without a tag
C16_Witness ==
  /\ Returned("buildTagStats")
  /\ SingleValued(arg.rows, arg.dim)
  /\ \E i, j \in 1..Len(arg.rows) :
        TagsOf(arg.rows[i], arg.dim) = <<>> /\ TagsOf(arg.rows[j], arg.dim) # <<>>
  /\ Len(ret) = 2

\* the data set of the chart drawn for tag t of dimension d
SeriesOf(chart, t) ==
  {k \in 1..Len(chart.datasets) : chart.datasets[k].label \in {t, stripPrefix(t)}}

\* the number of records of rows published in year y with effective tag t
YearCount(rows, d, t, y) ==
  Cardinality({i \in 1..Len(rows) :
     rows[i].PublishDate.valid /\ rows[i].PublishDate.year = y /\ t \in EffTags(rows[i], d)})

\* C17 (year series cells): the year axis is ascending without repeats, and
\* every cell of every charted tag is the number of records of that year
\* carrying the tag, 0 when there is none.
C17_YearSeriesCells ==
  (Returned("renderLineChart") \/ Returned("renderLineChart_v0")) =>
     /\ \A k \in 1..(Len(ret.labels) - 1) : ret.labels[k] < ret.labels[k + 1]
     /\ \A i \in 1..Len(arg.rows) : \A t \in Range(TagsOf(arg.rows[i], arg.dim)) :
           \A s \in SeriesOf(ret, t) : \A k \in 1..Len(ret.labels) :
              ret.datasets[s].data[k] = YearCount(arg.rows, arg.dim, t, ret.labels[k])

\* C18 (year series covers the sentinel): when a charted record has no tag in
\* the dimension, the chart has a series for the sentinel whose cells count
\* the records without a tag per year.
C18_SentinelSeries ==
  ((Returned("renderLineChart") \/ Returned("renderLineChart_v0"))
      /\ \E i \in 1..Len(arg.rows) : TagsOf(arg.rows[i], arg.dim) = <<>>) =>
     \E s \in 1..Len(ret.datasets) :
        /\ ret.datasets[s].label = Sentinel(arg.dim)
        /\ \A k \in 1..Len(ret.labels) :
              ret.datasets[s].data[k]
                = YearCount(arg.rows, arg.dim, Sentinel(arg.dim), ret.labels[k])

\* C14 (unfiltered denominator): after every recompute of the stats page the
\* percentage of each aggregate row is 100 * count / N, N the number of
\* loaded records.
C14_UnfilteredDenominator ==
  (page = Stats /\ last = "recompute") =>
     \A c \in Range(Cards) : \A i \in 1..Len(tables[c]) :
        /\ tables[c][i].pct.den # 0
        /\ tables[c][i].pct.num * Len(raw) = 100 * tables[c][i].count * tables[c][i].pct.den

\* a recompute of the stats page that kept some, but not all, loaded records
C14_Witness ==
  /\ page = Stats
  /\ last = "recompute"
  /\ 0 < Len(filtered)
  /\ Len(filtered) < Len(raw)
  /\ \A c \in Range(Cards) : tables[c] # <<>>

\* the sentinel labels of the tag dimensions
SentinelLabels == {NoPeriod, NoRegion, NoTopic, NoSeries}

\* label l starts with an integer; LeadInt(l) is that integer
HasLeadInt(l) == l # <<>> /\ IsDigit(l[1])

LeadInt(l) == DigitsToInt(LeadingDigits(l))

\* how often x occurs in the sequence a
CountIn(a, x) == Cardinality({i \in 1..Len(a) : a[i] = x})

C20_SentinelLast ==
  (\/ Returned("buildFilterOptions")
   \/ Returned("buildFilterOptions_v0")
   \/ Returned("rebuildFilterOptionsCascade")
   \/ Returned("renderGroups")) =>
     \A i \in 1..Len(ret) : ret[i] = Sentinel(arg.dim) => i = Len(ret)

\* C21 (total-order comparators): for two distinct labels the comparators of
\* sortWithNoneLast and sortAlphaNoneLast give a non-zero, antisymmetric
\* result, and the two labels sort the same way in whichever order they are
\* supplied.
C21_TotalOrder ==
  ((Returned("compareWithNoneLast") \/ Returned("compareAlphaNoneLast"))
      /\ arg[1] # arg[2]) =>
     /\ ret.ab # 0
     /\ (ret.ab < 0) <=> (ret.ba > 0)
     /\ ret.sortedAB = ret.sortedBA

\* record a comes strictly before record b in the canonical order: dated
\* before undated, year descending, month descending, episode ordinal
\* descending with an absent ordinal below every present one, title ascending
CanonicallyBefore(a, b) ==
  LET da == a.PublishDate
      db == b.PublishDate
      ea == a.Episode
      eb == b.Episode
  IN IF da.valid # db.valid THEN da.valid
     ELSE IF da.valid /\ da.year # db.year THEN da.year > db.year
     ELSE IF da.valid /\ da.month # db.month THEN da.month > db.month
     ELSE IF ea # eb THEN (eb = NoEpisode \/ (ea # NoEpisode /\ ea > eb))
     ELSE localeCompare(a.Title, b.Title) < 0

\* C22 (canonical sort): the sorted records are in canonical order - no
\* record is followed by one that comes strictly before it.
C22_CanonicalSort ==
  Returned("rows.sort") =>
     \A i, j \in 1..Len(ret) : i < j => ~CanonicallyBefore(ret[j], ret[i])

\* the fetched rows with a non-blank title, in their order
TitledRows == SelectSeq(sheet, LAMBDA r : \E i \in 1..Len(r.Title) : r.Title[i] # " ")

\* C23 (only a missing title drops a row): the loaded collection is made of
\* exactly the fetched rows whose trimmed title is non-empty, in their order;
\* an unparseable date or episode ordinal is null and an empty tag cell the
\* empty sequence.
C23_OnlyTitleDrops ==
  phase = "loaded" =>
     /\ Len(raw) = Len(TitledRows)
     /\ \A k \in 1..Len(raw) :
           LET r == TitledRows[k]
           IN /\ raw[k].Title = trim(r.Title)
              /\ (raw[k].PublishDate = NoDate) <=> (parseDate(r.PublishDate) = NoDate)
              /\ (raw[k].Episode = NoEpisode) <=> (r.Episode = <<>> \/ ~IsDigit(r.Episode[1]))
              /\ r.Period = <<>> => raw[k].Period = <<>>
              /\ r.Topic = <<>> => raw[k].Topic = <<>>
              /\ r.Region # <<>> => raw[k].Region = parseTags(r.Region)

\* rows have been loaded: one was dropped for its blank title, one was kept
\* although its date cannot be parsed
C23_Witness ==
  /\ phase = "loaded"
  /\ 0 < Len(raw)
  /\ Len(raw) < Len(sheet)
  /\ \E k \in 1..Len(raw) : ~raw[k].PublishDate.valid

\* C24 (immutable base collection): once the fetched rows are loaded no
\* step changes the loaded collection, and after every step the filtered
\* subset is made of records of the loaded collection only.
C24_BaseImmutable ==
  [][/\ phase = "loaded" => raw' = raw
     /\ Len(filtered') <= Len(raw')
     /\ \A i \in 1..Len(filtered') : filtered'[i] \in Range(raw')]_vars

\* a recompute under a selection has kept some records of the loaded
\* collection and left others out
C24_Witness ==
  /\ phase = "loaded"
  /\ last = "recompute"
  /\ Selected(filters) # {}
  /\ filtered # <<>>
  /\ Len(filtered) < Len(raw)

\* C25 (single-writer turns): a step that mutates the filter state (the
\* selection sets or the query) starts from a state in which the last
\* recompute has processed the whole filter state, i.e. a recompute took
\* place since the previous mutation.  The chips are the snapshot of the
\* filter state the last recompute rendered; the page is opened on a
\* location without parameters, so the first mutation has no predecessor.
C25_SingleWriterTurns ==
  [][(startUrl = NoParams /\ (filters' # filters \/ q' # q))
        => chips = RenderChips(page, filters, q)]_vars

\* C26 (recompute is total): a recompute, whenever in the life of the page
\* it is triggered, ends without raising an error.
C26_RecomputeTotal ==
  last \in {"recompute", "error"} => last = "recompute"

\* what a step of the debounce timer of the explorer must look like
DebounceStep ==
  /\ (page = Explorer /\ last' = "mutate") =>
        /\ pendingApply'
        /\ filtered' = filtered
        /\ chips' = chips
  /\ (pendingApply /\ ~pendingApply') =>
        /\ last' = "recompute"
        /\ filters' = filters /\ q' = q
        /\ filtered' = SortRows(FilterRows(Explorer, raw, filters, q))
        /\ chips' = RenderChips(Explorer, filters, q)
  /\ (page = Explorer /\ ~pendingApply /\ last' = "recompute") =>
        pendingQ /\ ~pendingQ'

\* C27 (debounce coalescing): on the explorer every trigger through
\* debouncedApply leaves one pending recompute and recomputes nothing
\* itself; the pending recompute runs once, after the last trigger, over
\* the filter state holding every mutation made so far, and without a
\* pending recompute only the timer of the search box recomputes; a
\* pending recompute eventually runs.
C27_DebounceCoalesces ==
  /\ [][DebounceStep]_vars
  /\ pendingApply ~> ~pendingApply

\* two selections made in one burst on a page opened without parameters:
\* no recompute has seen either, and one recompute is pending
C27_Witness ==
  /\ page = Explorer
  /\ startUrl = NoParams
  /\ phase = "loaded"
  /\ pendingApply
  /\ burst = 2
  /\ Cardinality(Selected(filters)) = 2
  /\ chips = {}

\* the filter sets after the checkbox of value v in dropdown d is checked
CheckedOption(d, v) ==
  [filters EXCEPT ![OwnerOf(page, handler, d)] = SetAdd(@, v)]

\* C28 (offered options are live): right after a recompute that kept some
\* record, checking any one option offered in the list of a dimension with
\* an empty selection set and recomputing keeps some record.
C28_OfferedOptionsLive ==
  (phase = "loaded" /\ last = "recompute" /\ filtered # <<>>) =>
     \A d \in DimSet(page) : filters[d] = <<>> =>
        \A v \in Range(options[d]) :
           FilterRows(page, raw, CheckedOption(d, v), q) # <<>>

\* after the step the filtered subset is the whole loaded collection and
\* every option list is the one built from it at load time
FacetsRestored ==
  /\ Len(filtered') = Len(raw)
  /\ Range(filtered') = Range(raw)
  /\ \A d \in DimSet(page) : options'[d] = BuildOptionList(page, raw, d)

\* C29 (clear-all restores the full facets): with the rows loaded, the
\* recompute that resetFilters triggers (inside the handler on the stats
\* page, through the timer of debouncedApply on the explorer) leaves the
\* whole loaded collection as the filtered subset and every option list
\* as built at load time.
C29_ClearRestoresFacets ==
  [][/\ (page = Stats /\ phase = "loaded" /\ ResetFilters) => FacetsRestored
     /\ (/\ page = Explorer /\ phase = "loaded"
         /\ last = "mutate" /\ Selected(filters) = {} /\ q = <<>>
         /\ pendingApply /\ ~pendingApply') => FacetsRestored]_vars

\* record r is shown under the group headed t
ShownUnder(groups, t, r) ==
  \E i \in 1..Len(groups) : groups[i].key = t /\ r \in Range(groups[i].rows)

\* C30 (tag-grouped view coverage): in the view grouped by dimension D a
\* filtered record is under group t iff t is one of its effective tags of D
\* and D's selection is empty or holds t; the groups hold filtered records
\* only, every filtered record is in some group, and under a selection no
\* group is headed by an unselected tag.
C30_GroupCoverage ==
  Returned("groupByMulti") =>
     LET d == arg.dim
         act == arg.active
         keys == {ret.groups[i].key : i \in 1..Len(ret.groups)}
         tags == keys \cup Range(act) \cup
                 UNION {Range(EffectiveTags(r, d)) : r \in Range(arg.rows)}
     IN /\ \A t \in tags : \A r \in Range(arg.rows) :
              ShownUnder(ret.groups, t, r) <=>
                 /\ r \in Range(ret.rows)
                 /\ t \in Range(EffectiveTags(r, d))
                 /\ (act = <<>> \/ t \in Range(act))
        /\ \A r \in Range(ret.rows) : \E t \in keys : ShownUnder(ret.groups, t, r)
        /\ act # <<>> => keys \subseteq Range(act)

\* a record tagged A and Z is grouped while A alone is selected: it is
\* shown under A and there is no group Z
C30_Witness ==
  /\ Returned("groupByMulti")
  /\ arg.active = <<<<"A">>>>
  /\ \E r \in Range(ret.rows) : Len(EffectiveTags(r, arg.dim)) = 2
                                /\ <<"Z">> \in Range(EffectiveTags(r, arg.dim))
  /\ Len(ret.groups) = 1

====
